---- MODULE Spec2Model ----
(***************************************************************************)
(* Model of EnhancedIntegrationManager                                     *)
(* (backend/services/enhanced_integration_manager.py): the orchestrator    *)
(* of the data pipeline, the cache service, the event bus, the feed        *)
(* client (Sportradar) and the data quality monitor.                       *)
(*                                                                         *)
(* Every public coroutine of the manager is one action.  The outcome of    *)
(* each collaborator call (returns, returns nothing, raises) is an input   *)
(* of the action, drawn with \E.  lastOp records what the last operation   *)
(* did: the collaborator calls it made, in order, the events it handed to  *)
(* the event bus, the listeners and handlers that were invoked, its        *)
(* result, and the values of the manager's fields before it ran.           *)
(***************************************************************************)
EXTENDS Integers, Sequences, FiniteSets, TLC

VARIABLES
    initialized,             \* self.initialized
    quality_alert_handlers,  \* self.quality_alert_handlers
    integration_metrics,     \* self.integration_metrics
    alert_callbacks,         \* data_quality_monitor: registered (severity, callback) pairs
    reconciliation_rules,    \* data_quality_monitor: registered reconciliation rules
    update_subscriptions,    \* sportradar_service: callbacks subscribed per sport
    event_listeners,         \* event_driven_cache: listeners per event type, in registration order
    sport_cache,             \* intelligent_cache_service: the keys stored by set_sport_data
    closedOnce,              \* history: some close() has run to completion
    samples,                 \* history: the response times handed to _update_response_time_metric
    requests,                \* the read requests in flight, each with the call it is suspended at
    snapshot,                \* the metrics object an accessor last returned to a caller
    lastOp                   \* history: the last operation, see above

vars == <<initialized, quality_alert_handlers, integration_metrics,
          alert_callbacks, reconciliation_rules, update_subscriptions,
          event_listeners, sport_cache, closedOnce, samples, requests,
          snapshot, lastOp>>

----------------------------------------------------------------------------
(* Bounds *)

MaxInits == 2       \* initialize() calls that reach the registrations
MaxHandlers == 2    \* external quality-alert handlers registered
MaxCount == 2       \* cap of every metrics counter

----------------------------------------------------------------------------
(* Enumerations *)

None == "None"

active_sports == <<"mlb", "nba", "nfl", "nhl">>

EventTypes == {"score_update", "game_state_change", "odds_change",
               "injury_report", "data_source_update"}

Severities == {"warning", "error", "critical"}

DataSources == {"sportradar", "odds_api"}

RuleNames == {"score_range", "freshness"}

FieldPaths == {"games.home_score"}

Handlers == {"h1", "h2"}

Range(s) == {s[i] : i \in 1..Len(s)}

\* the prefix of calls up to and including the first occurrence of call c
\* (the whole sequence when c does not occur): the calls made by a coroutine
\* whose call c raised
UpTo(calls, c) ==
    IF \E i \in 1..Len(calls) : calls[i] = c
    THEN SubSeq(calls, 1, CHOOSE i \in 1..Len(calls) :
                            calls[i] = c /\ \A j \in 1..(i-1) : calls[j] # c)
    ELSE calls

----------------------------------------------------------------------------
(* State after construction *)

\* what an operation gives its caller: kind is "True", "False", "ok",
\* "raise" (an exception leaves the operation), "data" (an envelope with
\* data and metadata) or "error" (a payload with an error field)
Result(kind) == [kind |-> kind, source |-> None, timestamp |-> None,
                 cache_status |-> None, error |-> None, entries |-> {}]

NoOp == [op |-> "init", arg |-> None, calls |-> <<>>, events |-> <<>>,
         delivered |-> 0, invoked |-> <<>>, handled |-> <<>>, failed |-> {},
         caught |-> "none", result |-> Result(None),
         pre |-> [initialized |-> FALSE, closedOnce |-> FALSE,
                  metrics |-> [total_requests |-> 0, cache_hits |-> 0,
                               data_quality_violations |-> 0,
                               cross_source_discrepancies |-> 0,
                               avg_response_time |-> <<0, 1>>],
                  handlers |-> <<>>, cache |-> {}]]

MaxRequests == 2    \* read requests in flight at a time

RequestIds == 1..MaxRequests

\* a request that has not been made.  pc: "new", "scheduled", the
\* collaborator call the request is suspended at, or "done"; seen: the
\* value of total_requests when the request was made; status: the cache
\* status of the envelope returned, "error" or "raise"
NoRequest == [kind |-> None, pc |-> "new", seen |-> 0, status |-> None]

\* no metrics object has been returned.  by: the accessor; shared: the
\* object is self.integration_metrics itself; metrics: the content the
\* caller last saw or wrote
NoSnapshot == [by |-> None, shared |-> FALSE, metrics |-> NoOp.pre.metrics]

Init ==
    /\ initialized = FALSE
    /\ quality_alert_handlers = <<>>
    /\ integration_metrics = [total_requests |-> 0, cache_hits |-> 0,
                              data_quality_violations |-> 0,
                              cross_source_discrepancies |-> 0,
                              avg_response_time |-> <<0, 1>>]
    /\ alert_callbacks = <<>>
    /\ reconciliation_rules = 0
    /\ update_subscriptions = [s \in Range(active_sports) |-> 0]
    /\ event_listeners = [t \in EventTypes |-> <<>>]
    /\ sport_cache = {}
    /\ closedOnce = FALSE
    /\ samples = <<>>
    /\ requests = [r \in RequestIds |-> NoRequest]
    /\ snapshot = NoSnapshot
    /\ lastOp = NoOp

\* the manager's fields as an operation finds them
Pre == [initialized |-> initialized, closedOnce |-> closedOnce,
        metrics |-> integration_metrics, handlers |-> quality_alert_handlers,
        cache |-> sport_cache]

----------------------------------------------------------------------------
(* initialize() *)

\* outcomes of the collaborator calls of one initialize(): which call, if
\* any, raises, or that sportradar_service.initialize() returns False
InitFailures == {"none", "feed_unavailable",
                 "pipeline.initialize", "cache.initialize",
                 "event_bus.initialize", "feed.initialize",
                 "monitor.initialize", "feed.start_push_feeds"}

\* a plausible slip: the feed client started before the event bus
CoreCallsFeedBeforeBus == <<"pipeline.initialize", "cache.initialize",
                            "feed.initialize", "event_bus.initialize",
                            "monitor.initialize">>

\* _initialize_core_components: the starts, in order
CoreCalls == <<"pipeline.initialize", "cache.initialize",
               "event_bus.initialize", "feed.initialize",
               "monitor.initialize">>

\* _setup_data_quality_monitoring
QualityMonitoringCalls == <<"monitor.register_alert_callback(error)",
                            "monitor.register_alert_callback(critical)">>

\* _setup_cross_source_reconciliation
ReconciliationCalls == <<"monitor.register_reconciliation_rule">>

\* _setup_realtime_quality_monitoring with _setup_cache_event_listeners
RealtimeCalls ==
    [i \in 1..Len(active_sports) |->
        "feed.subscribe_to_updates(" \o active_sports[i] \o ")"]
    \o <<"event_bus.register_event_listener(game_state_change)",
         "event_bus.register_event_listener(score_update)">>

\* _start_background_services
BackgroundCalls(api_key) ==
    (IF api_key THEN <<"feed.start_push_feeds">> ELSE <<>>) \o RealtimeCalls

\* all calls of an initialize() in which nothing raises
AllInitCalls(api_key) ==
    CoreCalls \o QualityMonitoringCalls \o ReconciliationCalls
    \o BackgroundCalls(api_key)

\* the call that raises is among the calls of this initialize()
InitRaises(fail, api_key) == fail \in Range(AllInitCalls(api_key))

\* the calls initialize() makes: it stops at the call that raises
InitCalls(fail, api_key) == UpTo(AllInitCalls(api_key), fail)

\* the calls that returned normally
InitCompleted(fail, api_key) ==
    IF InitRaises(fail, api_key)
    THEN SubSeq(InitCalls(fail, api_key), 1, Len(InitCalls(fail, api_key)) - 1)
    ELSE InitCalls(fail, api_key)

initialize(fail, api_key) ==
    LET calls == InitCalls(fail, api_key)
        done == Range(InitCompleted(fail, api_key))
        raised == InitRaises(fail, api_key)
    IN
    /\ Len(event_listeners["game_state_change"]) < MaxInits
    /\ reconciliation_rules < MaxInits
    /\ alert_callbacks' = alert_callbacks
            \o (IF "monitor.register_alert_callback(error)" \in done
                THEN <<<<"error", "quality_alert_handler">>>> ELSE <<>>)
            \o (IF "monitor.register_alert_callback(critical)" \in done
                THEN <<<<"critical", "quality_alert_handler">>>> ELSE <<>>)
    /\ reconciliation_rules' = reconciliation_rules
            + (IF "monitor.register_reconciliation_rule" \in done THEN 1 ELSE 0)
    /\ update_subscriptions' =
            [s \in Range(active_sports) |->
                update_subscriptions[s]
                + (IF ("feed.subscribe_to_updates(" \o s \o ")") \in done
                   THEN 1 ELSE 0)]
    /\ event_listeners' =
            [t \in EventTypes |->
                event_listeners[t]
                \o (IF t = "game_state_change"
                       /\ "event_bus.register_event_listener(game_state_change)" \in done
                    THEN <<"game_state_listener">> ELSE <<>>)
                \o (IF t = "score_update"
                       /\ "event_bus.register_event_listener(score_update)" \in done
                    THEN <<"score_update_listener">> ELSE <<>>)]
    /\ initialized' = (IF raised THEN initialized ELSE TRUE)
    /\ lastOp' = [NoOp EXCEPT !.op = "initialize",
                              !.arg = [fail |-> fail, api_key |-> api_key],
                              !.calls = calls,
                              !.result = Result(IF raised THEN "False" ELSE "True"),
                              !.pre = Pre]
    /\ UNCHANGED <<quality_alert_handlers, integration_metrics, sport_cache,
                   closedOnce, samples,
                   requests, snapshot>>

Initialize == \E fail \in InitFailures, api_key \in BOOLEAN :
                 initialize(fail, api_key)

----------------------------------------------------------------------------
(* close() *)

CloseFailures == {"none", "feed.close", "pipeline.close", "cache.close",
                  "monitor.close"}

CloseCalls == <<"feed.close", "pipeline.close", "cache.close", "monitor.close">>

\* a plausible slip: a close() that also puts the metrics back to their
\* initial values
closeResettingMetrics(fail) ==
    LET calls == UpTo(CloseCalls, fail)
        raised == fail \in Range(CloseCalls)
    IN
    /\ initialized' = (IF raised THEN initialized ELSE FALSE)
    /\ closedOnce' = (closedOnce \/ ~raised)
    /\ integration_metrics' = NoOp.pre.metrics
    /\ lastOp' = [NoOp EXCEPT !.op = "close", !.arg = fail, !.calls = calls,
                              !.result = Result(IF raised THEN "raise" ELSE "ok"),
                              !.pre = Pre]
    /\ UNCHANGED <<quality_alert_handlers, alert_callbacks,
                   reconciliation_rules, update_subscriptions,
                   event_listeners, sport_cache, samples,
                   requests, snapshot>>

close(fail) ==
    LET calls == UpTo(CloseCalls, fail)
        raised == fail \in Range(CloseCalls)
    IN
    /\ initialized' = (IF raised THEN initialized ELSE FALSE)
    /\ closedOnce' = (closedOnce \/ ~raised)
    /\ lastOp' = [NoOp EXCEPT !.op = "close", !.arg = fail, !.calls = calls,
                              !.result = Result(IF raised THEN "raise" ELSE "ok"),
                              !.pre = Pre]
    /\ UNCHANGED <<quality_alert_handlers, integration_metrics,
                   alert_callbacks, reconciliation_rules,
                   update_subscriptions, event_listeners, sport_cache, samples,
                   requests, snapshot>>

Close == \E fail \in CloseFailures : close(fail)

----------------------------------------------------------------------------
(* Events and the event bus *)

Event(event_type, source, sport, game_id, data_category, payload, scope) ==
    [event_type |-> event_type, source |-> source, sport |-> sport,
     game_id |-> game_id, data_category |-> data_category,
     payload |-> payload, invalidation_scope |-> scope]

\* payload.get(key) of a payload, a set of <<key, value>> pairs
PayloadGet(payload, key) ==
    IF \E kv \in payload : kv[1] = key
    THEN (CHOOSE kv \in payload : kv[1] = key)[2]
    ELSE None

GameStates == {"scheduled", "live", "halftime", "final"}

\* a plausible slip: the new state forwarded without the conversion to a
\* GameState
game_state_listener_any_state(event) ==
    IF event.game_id \notin {None, ""}
       /\ PayloadGet(event.payload, "new_state") \notin {None, ""}
    THEN "update_game_state"
    ELSE "skipped"

\* game_state_listener: what it does with one event
game_state_listener(event) ==
    IF event.game_id \notin {None, ""}
       /\ PayloadGet(event.payload, "new_state") \notin {None, ""}
    THEN IF PayloadGet(event.payload, "new_state") \in GameStates
         THEN "update_game_state" ELSE "rejected"
    ELSE "skipped"

\* one listener handed one event: what the listener did
Invoke(listener, event, i) ==
    [listener |-> listener, event |-> i,
     did |-> IF listener = "game_state_listener"
             THEN game_state_listener(event)
             ELSE "total_requests += 1"]

\* emit_event of the event bus: the listeners registered for the event's
\* type are invoked in registration order
Dispatch(event, i) ==
    [k \in 1..Len(event_listeners[event.event_type]) |->
        Invoke(event_listeners[event.event_type][k], event, i)]

\* the listener invocations caused by the events events[1..n]
RECURSIVE DispatchAll(_, _)
DispatchAll(events, n) ==
    IF n = 0 THEN <<>>
    ELSE DispatchAll(events, n - 1) \o Dispatch(events[n], n)

\* score_update_listener: the increments of total_requests made by a
\* sequence of listener invocations
ScoreUpdates(invoked) ==
    Cardinality({k \in 1..Len(invoked) :
                    invoked[k].listener = "score_update_listener"})

----------------------------------------------------------------------------
(* register_quality_alert_handler(handler) *)

register_quality_alert_handler(handler) ==
    /\ Len(quality_alert_handlers) < MaxHandlers
    /\ quality_alert_handlers' = Append(quality_alert_handlers, handler)
    /\ lastOp' = [NoOp EXCEPT !.op = "register_quality_alert_handler",
                              !.arg = handler, !.result = Result("ok"),
                              !.pre = Pre]
    /\ UNCHANGED <<initialized, integration_metrics, alert_callbacks,
                   reconciliation_rules, update_subscriptions,
                   event_listeners, sport_cache, closedOnce, samples,
                   requests, snapshot>>

RegisterQualityAlertHandler ==
    \E handler \in Handlers : register_quality_alert_handler(handler)

----------------------------------------------------------------------------
(* _handle_quality_violation(violation) *)

Violations == [rule_name : RuleNames, severity : Severities,
               data_source : DataSources, field_path : FieldPaths]

\* the event emitted for a violation of severity error or critical
ViolationEvent(violation) ==
    Event("data_source_update", violation.data_source, None, None,
          violation.field_path,
          {<<"violation", violation.rule_name>>,
           <<"severity", violation.severity>>},
          "pattern")

\* a plausible slip: every violation invalidates
ViolationEventsAnySeverity(violation) == <<ViolationEvent(violation)>>

\* the events _handle_quality_violation hands to the event bus
ViolationEvents(violation) ==
    IF violation.severity \in {"error", "critical"}
    THEN <<ViolationEvent(violation)>> ELSE <<>>

\* a plausible slip: the try around the loop instead of inside it, so that
\* the first handler that raises ends the loop
NotifyHandlersUnisolated(handlers, failing) ==
    IF \E i \in 1..Len(handlers) : handlers[i] \in failing
    THEN [handled |-> SubSeq(handlers, 1,
                        CHOOSE i \in 1..Len(handlers) :
                            /\ handlers[i] \in failing
                            /\ \A j \in 1..(i-1) : handlers[j] \notin failing),
          raised |-> FALSE]
    ELSE [handled |-> handlers, raised |-> FALSE]

\* the handler loop (lines 212-216): each handler is awaited inside its own
\* try, the handlers in failing raise; handled: the handlers invoked, in
\* order; raised: an exception leaves the loop
NotifyHandlers(handlers, failing) == [handled |-> handlers, raised |-> FALSE]

\* the handlers _handle_quality_violation invokes: none when emit_event raised
HandlersNotified(handlers, emit_raised, failing) ==
    IF emit_raised THEN <<>> ELSE NotifyHandlers(handlers, failing).handled

\* a plausible slip: only the violations that are acted upon are counted
ViolationCountedWhenSevere(n, violation) ==
    IF violation.severity \in {"error", "critical"} THEN n + 1 ELSE n

\* the counter after _handle_quality_violation (line 190)
ViolationCounted(n, violation) == n + 1

\* emit_raises: emit_event raises; failing: the handlers that raise
handle_quality_violation(violation, emit_raises, failing) ==
    LET events == ViolationEvents(violation)
        emit_raised == emit_raises /\ events # <<>>
        invoked == IF emit_raised THEN <<>> ELSE DispatchAll(events, Len(events))
    IN
    /\ integration_metrics.data_quality_violations < MaxCount
    /\ integration_metrics.total_requests + ScoreUpdates(invoked) <= MaxCount
    /\ integration_metrics' =
         [integration_metrics EXCEPT
            !.data_quality_violations = ViolationCounted(@, violation),
            !.total_requests = @ + ScoreUpdates(invoked)]
    /\ lastOp' = [NoOp EXCEPT
                    !.op = "handle_quality_violation",
                    !.arg = violation,
                    !.calls = [i \in 1..Len(events) |-> "event_bus.emit_event"],
                    !.events = events,
                    !.delivered = IF emit_raised THEN 0 ELSE Len(events),
                    !.invoked = invoked,
                    !.handled = HandlersNotified(quality_alert_handlers,
                                                 emit_raised, failing),
                    !.failed = IF emit_raised THEN {} ELSE failing,
                    !.result = Result(IF emit_raised
                                         \/ NotifyHandlers(quality_alert_handlers,
                                                           failing).raised
                                      THEN "raise" ELSE "ok"),
                    !.pre = Pre]
    /\ UNCHANGED <<initialized, quality_alert_handlers, alert_callbacks,
                   reconciliation_rules, update_subscriptions,
                   event_listeners, sport_cache, closedOnce, samples,
                   requests, snapshot>>

HandleQualityViolation ==
    \E violation \in Violations, emit_raises \in BOOLEAN,
       failing \in SUBSET Handlers :
        /\ failing \subseteq Range(quality_alert_handlers)
        /\ handle_quality_violation(violation, emit_raises, failing)

----------------------------------------------------------------------------
(* Payloads pushed by the feed client *)

Absent == "Absent"      \* the key is not in the dict

\* dict.get(key): None for a missing key
Get(v) == IF v = Absent THEN None ELSE v

\* a game record; is_dict = FALSE is an entry of "games" that is no dict
Games == [is_dict : BOOLEAN, id : {Absent, "", "g1", "g2"},
          home_score : {Absent, None, "3"}, away_score : {Absent, None, "2"},
          status : {Absent, None, "", "live", "postponed"}]

\* the indicator words that occur in str(data).lower()
Indicators == {"basketball", "nfl"}

MaxGames == 1       \* game records in one pushed payload

\* the sequences over S of length at most n
RECURSIVE SeqsUpTo(_, _)
SeqsUpTo(S, n) ==
    IF n = 0 THEN {<<>>}
    ELSE SeqsUpTo(S, n - 1)
         \cup {Append(q, x) : q \in {r \in SeqsUpTo(S, n - 1) : Len(r) = n - 1},
                              x \in S}

\* a payload: has_games/odds/bookmakers/injuries/injury_reports say
\* whether the key is in the dict
Payload(games, odds, text) ==
    [has_games |-> TRUE, games |-> games, odds |-> odds, bookmakers |-> FALSE,
     injuries |-> FALSE, injury_reports |-> FALSE, text |-> text]

Game(is_dict, id, home_score, status) ==
    [is_dict |-> is_dict, id |-> id, home_score |-> home_score,
     away_score |-> Absent, status |-> status]

\* the game records of the payloads pushed in Spec: a record with a score
\* and a status, with a status only, with a score only, without an id, and
\* an entry that is no dict
PushedGames ==
    {Game(TRUE, "g1", "3", "live"), Game(TRUE, "g1", Absent, "live"),
     Game(TRUE, "g1", "3", Absent), Game(TRUE, "", "3", "live"),
     Game(FALSE, "", Absent, Absent)}

\* the payloads pushed in Spec
PushedPayloads ==
    {Payload(games, FALSE, {}) : games \in SeqsUpTo(PushedGames, MaxGames)}

\* _extract_sport_from_data: the first sport, in the order of
\* sport_indicators, one of whose indicators occurs in the text
sport_indicators == <<
    [sport |-> "mlb", indicators |-> {"baseball", "mlb"}],
    [sport |-> "nba", indicators |-> {"basketball", "nba"}],
    [sport |-> "nfl", indicators |-> {"football", "nfl", "american_football"}],
    [sport |-> "nhl", indicators |-> {"hockey", "nhl", "ice_hockey"}] >>

extract_sport_from_data(data) ==
    IF \E i \in 1..Len(sport_indicators) :
            sport_indicators[i].indicators \cap data.text # {}
    THEN sport_indicators[
            CHOOSE i \in 1..Len(sport_indicators) :
                /\ sport_indicators[i].indicators \cap data.text # {}
                /\ \A j \in 1..(i-1) :
                      sport_indicators[j].indicators \cap data.text = {}].sport
    ELSE None

\* a plausible slip: the two invalidation scopes exchanged
GameEventsScopesExchanged(source, data, game) ==
    IF Get(game.id) \in {None, ""} THEN <<>>
    ELSE (IF Get(game.home_score) # None \/ Get(game.away_score) # None
          THEN <<Event("score_update", source, extract_sport_from_data(data),
                       game.id, None,
                       {<<"home_score", Get(game.home_score)>>,
                        <<"away_score", Get(game.away_score)>>},
                       "pattern")>>
          ELSE <<>>)
         \o
         (IF Get(game.status) \notin {None, ""}
          THEN <<Event("game_state_change", source,
                       extract_sport_from_data(data), game.id, None,
                       {<<"new_state", game.status>>}, "related")>>
          ELSE <<>>)

\* a plausible slip: the record without an id is not skipped
GameEventsWithoutIdCheck(source, data, game) ==
    (IF Get(game.home_score) # None \/ Get(game.away_score) # None
     THEN <<Event("score_update", source, extract_sport_from_data(data),
                  Get(game.id), None,
                  {<<"home_score", Get(game.home_score)>>,
                   <<"away_score", Get(game.away_score)>>},
                  "related")>>
     ELSE <<>>)
    \o
    (IF Get(game.status) \notin {None, ""}
     THEN <<Event("game_state_change", source,
                  extract_sport_from_data(data), Get(game.id), None,
                  {<<"new_state", game.status>>}, "pattern")>>
     ELSE <<>>)

\* the events of one game record (lines 257-285)
GameEvents(source, data, game) ==
    IF Get(game.id) \in {None, ""} THEN <<>>
    ELSE (IF Get(game.home_score) # None \/ Get(game.away_score) # None
          THEN <<Event("score_update", source, extract_sport_from_data(data),
                       game.id, None,
                       {<<"home_score", Get(game.home_score)>>,
                        <<"away_score", Get(game.away_score)>>},
                       "related")>>
          ELSE <<>>)
         \o
         (IF Get(game.status) \notin {None, ""}
          THEN <<Event("game_state_change", source,
                       extract_sport_from_data(data), game.id, None,
                       {<<"new_state", game.status>>}, "pattern")>>
          ELSE <<>>)

\* the loop over data["games"][1..n]: the events, and whether a record that
\* is no dict raised (game.get fails) and ended the loop
RECURSIVE GamesEvents(_, _, _)
GamesEvents(source, data, n) ==
    IF n = 0 THEN [events |-> <<>>, raised |-> FALSE]
    ELSE LET before == GamesEvents(source, data, n - 1)
         IN IF before.raised THEN before
            ELSE IF ~data.games[n].is_dict
                 THEN [events |-> before.events, raised |-> TRUE]
                 ELSE [events |-> before.events
                                  \o GameEvents(source, data, data.games[n]),
                       raised |-> FALSE]

\* a plausible slip: one ODDS_CHANGE event for each of the two keys
OddsEventsPerKey(source, data) ==
    (IF data.odds
     THEN <<Event("odds_change", source, extract_sport_from_data(data), None,
                  "odds", {<<"timestamp", "utc_now">>}, "pattern")>>
     ELSE <<>>)
    \o (IF data.bookmakers
        THEN <<Event("odds_change", source, extract_sport_from_data(data),
                     None, "odds", {<<"timestamp", "utc_now">>}, "pattern")>>
        ELSE <<>>)

\* the odds branch (lines 287-296)
OddsEvents(source, data) ==
    IF data.odds \/ data.bookmakers
    THEN <<Event("odds_change", source, extract_sport_from_data(data), None,
                 "odds", {<<"timestamp", "utc_now">>}, "pattern")>>
    ELSE <<>>

\* the injuries branch (lines 298-306)
InjuryEvents(source, data) ==
    IF data.injuries \/ data.injury_reports
    THEN <<Event("injury_report", source, extract_sport_from_data(data), None,
                 "injuries", {}, "related")>>
    ELSE <<>>

\* the games branch (lines 252-285) of a payload
GamesBranch(source, data) ==
    IF data.has_games THEN GamesEvents(source, data, Len(data.games))
    ELSE [events |-> <<>>, raised |-> FALSE]

\* the emit_event calls of _emit_cache_events_from_data when no emit_event
\* raises: the try block ends at the first exception
DerivedEvents(source, data) ==
    LET games == GamesBranch(source, data)
    IN IF games.raised THEN games.events
       ELSE games.events \o OddsEvents(source, data)
                         \o InjuryEvents(source, data)

\* a plausible slip: an except clause that names the exceptions of a
\* malformed record only, so that an exception of emit_event leaves the
\* method
EmitPropagatesBusFailure(record_raised, emit_raised) == emit_raised

\* whether an exception leaves _emit_cache_events_from_data: the whole body
\* is in one try whose except clause (lines 308-309) takes every Exception
EmitPropagates(record_raised, emit_raised) == FALSE

\* the branch in which the try block was left: "games", "odds", "injuries"
\* or "none"
FailedBranch(source, data, emit_fail) ==
    LET games == GamesBranch(source, data)
        all == DerivedEvents(source, data)
    IN IF emit_fail \in 1..Len(all)
       THEN (IF all[emit_fail].event_type = "odds_change" THEN "odds"
             ELSE IF all[emit_fail].event_type = "injury_report"
                  THEN "injuries" ELSE "games")
       ELSE IF games.raised THEN "games" ELSE "none"

\* _emit_cache_events_from_data: emit_fail = k > 0 makes the k-th emit_event
\* call raise.  events: the emit_event calls made; delivered: those that
\* returned
emit_cache_events_from_data(source, data, emit_fail) ==
    LET all == DerivedEvents(source, data)
        raised == emit_fail \in 1..Len(all)
        events == IF raised THEN SubSeq(all, 1, emit_fail) ELSE all
    IN [events |-> events,
        delivered |-> IF raised THEN SubSeq(all, 1, emit_fail - 1) ELSE all,
        caught |-> FailedBranch(source, data, emit_fail),
        propagated |-> EmitPropagates(GamesBranch(source, data).raised, raised)]

----------------------------------------------------------------------------
(* _monitor_incoming_data(data_source, data) *)

MaxViolations == 1      \* violations one validate_data call reports
MaxEmitFail == 1        \* the emit_event calls that may raise: the first MaxEmitFail

MonitorCalls == <<"monitor.validate_data", "monitor.update_timeliness_metric",
                  "monitor.detect_anomalies">>

\* violations: the number validate_data returns; raises: the call that raises
MonitorOutcomes == [violations : 0..MaxViolations,
                    raises : {"none"} \cup Range(MonitorCalls)]

monitor_incoming_data(outcome) ==
    [calls |-> UpTo(MonitorCalls, outcome.raises),
     violations |-> IF outcome.raises = "monitor.validate_data" THEN 0
                    ELSE outcome.violations]

----------------------------------------------------------------------------
(* sportradar_quality_callback(data): one subscribed callback handed one
   pushed payload *)

sportradar_quality_callback(data, outcome, emit_fail) ==
    LET monitored == monitor_incoming_data(outcome)
        emitted == emit_cache_events_from_data("sportradar", data, emit_fail)
        invoked == DispatchAll(emitted.delivered, Len(emitted.delivered))
    IN
    /\ {s \in Range(active_sports) : update_subscriptions[s] > 0} # {}
    /\ integration_metrics.data_quality_violations + monitored.violations <= MaxCount
    /\ integration_metrics.total_requests + ScoreUpdates(invoked) <= MaxCount
    /\ integration_metrics' =
         [integration_metrics EXCEPT
            !.data_quality_violations = @ + monitored.violations,
            !.total_requests = @ + ScoreUpdates(invoked)]
    /\ lastOp' = [NoOp EXCEPT
                    !.op = "sportradar_quality_callback",
                    !.arg = data,
                    !.calls = monitored.calls
                              \o [i \in 1..Len(emitted.events) |-> "event_bus.emit_event"],
                    !.events = emitted.events,
                    !.delivered = Len(emitted.delivered),
                    !.invoked = invoked,
                    !.caught = emitted.caught,
                    !.result = Result(IF emitted.propagated THEN "raise"
                                      ELSE "ok"),
                    !.pre = Pre]
    /\ UNCHANGED <<initialized, quality_alert_handlers, alert_callbacks,
                   reconciliation_rules, update_subscriptions,
                   event_listeners, sport_cache, closedOnce, samples,
                   requests, snapshot>>

\* a game record that is a dict
GameRecord(id, home_score, away_score, status) ==
    [is_dict |-> TRUE, id |-> id, home_score |-> home_score,
     away_score |-> away_score, status |-> status]

MaxDeriveGames == 2     \* game records in one payload of DerivePayloads

\* the game records the derivation is examined on: complete records of two
\* games, records lacking the scores or the status, records whose scores or
\* status are null or empty, records without an id, and an entry that is no
\* dict
DeriveGames ==
    {GameRecord("g1", "3", "2", "live"), GameRecord("g2", "3", "2", "live"),
     GameRecord("g1", "3", Absent, Absent),
     GameRecord("g1", Absent, Absent, "live"),
     GameRecord("g1", None, None, "live"),
     GameRecord("g1", None, "2", None),
     GameRecord("g1", Absent, Absent, ""),
     GameRecord("", "3", "2", "live"),
     GameRecord(Absent, "3", "2", "live"),
     Game(FALSE, "", Absent, Absent)}

\* the payloads the derivation is examined on: those with a games collection
\* and those without one, each with and without the odds and injuries keys
DerivePayloads ==
    [has_games : {TRUE}, games : SeqsUpTo(DeriveGames, MaxDeriveGames),
     odds : BOOLEAN, bookmakers : {FALSE}, injuries : BOOLEAN,
     injury_reports : {FALSE}, text : {{}}]
    \cup
    [has_games : {FALSE}, games : {<<>>}, odds : BOOLEAN,
     bookmakers : BOOLEAN, injuries : BOOLEAN, injury_reports : BOOLEAN,
     text : SUBSET Indicators]

\* one payload pushed to a manager that has just been constructed or
\* initialized
DeriveCallback ==
    /\ lastOp.op \in {"init", "initialize"}
    /\ \E data \in DerivePayloads, emit_fail \in 0..MaxEmitFail :
          sportradar_quality_callback(data, [violations |-> 0,
                                             raises |-> "none"], emit_fail)

\* one violation handled by a manager that has just been constructed or
\* initialized
DeriveViolation ==
    /\ lastOp.op \in {"init", "initialize"}
    /\ \E violation \in Violations, emit_raises \in BOOLEAN :
          handle_quality_violation(violation, emit_raises, {})

PushCallback ==
    \E data \in PushedPayloads,
       outcome \in {o \in MonitorOutcomes : o.raises = "none"},
       emit_fail \in 0..MaxEmitFail :
        sportradar_quality_callback(data, outcome, emit_fail)

----------------------------------------------------------------------------
(* _update_response_time_metric(response_time) *)

RECURSIVE GCD(_, _)
GCD(a, b) == IF b = 0 THEN a ELSE GCD(b, a % b)

\* the fraction num/den in lowest terms, as <<num, den>>
Fraction(num, den) == <<num \div GCD(num, den), den \div GCD(num, den)>>

\* response times, in milliseconds
Samples == {20}

\* the average after the sample response_time; total_requests is the
\* counter as the method reads it
update_response_time_metric(current_avg, total_requests, response_time) ==
    IF total_requests > 1
    THEN Fraction(current_avg[1] * (total_requests - 1)
                    + response_time * current_avg[2],
                  current_avg[2] * total_requests)
    ELSE <<response_time, 1>>

----------------------------------------------------------------------------
(* get_comprehensive_sports_data(sport) *)

\* sports_to_fetch
SportsToFetch(sport) == IF sport = None THEN active_sports ELSE <<sport>>

\* _get_fallback_data(sports): cached is the set of sports with a value
\* under their fallback key
FallbackEntries(sports, cached) ==
    {<<sports[i], IF sports[i] \in cached THEN "cached" ELSE "placeholder">> :
        i \in 1..Len(sports)}

\* n repetitions of a sequence of calls
RECURSIVE Repeat(_, _)
Repeat(calls, n) == IF n = 0 THEN <<>> ELSE calls \o Repeat(calls, n - 1)

\* feed_raises: get_all_sports_data raises; with_data: the sports whose
\* entry holds data; outcome: of each _monitor_incoming_data;
\* cached: see FallbackEntries; cache_raises: the first cache.get raises
get_comprehensive_sports_data(sport, feed_raises, with_data, outcome, response_time, cached, cache_raises) ==
    LET sports == SportsToFetch(sport)
        monitored == monitor_incoming_data(outcome)
        n == Cardinality(with_data)
        total == integration_metrics.total_requests + 1
    IN
    /\ integration_metrics.total_requests < MaxCount
    /\ integration_metrics.data_quality_violations + n * monitored.violations
            <= MaxCount
    /\ with_data \subseteq Range(sports)
    /\ cached \subseteq Range(sports)
    /\ IF feed_raises
       THEN /\ integration_metrics' =
                 [integration_metrics EXCEPT !.total_requests = total]
            /\ lastOp' = [NoOp EXCEPT
                 !.op = "get_comprehensive_sports_data",
                 !.arg = [sport |-> sport, feed_raises |-> feed_raises,
                          monitor_raises |-> IF n > 0 THEN outcome.raises
                                             ELSE "none",
                          cache_raises |-> cache_raises],
                 !.calls = <<"feed.get_all_sports_data", "cache.get">>
                           \o (IF cache_raises THEN <<>>
                               ELSE Repeat(<<"cache.get">>, Len(sports) - 1)),
                 !.result =
                    IF cache_raises THEN Result("raise")
                    ELSE [Result("data") EXCEPT
                            !.source = "fallback",
                            !.timestamp = "utc_now",
                            !.cache_status = "fallback",
                            !.entries = FallbackEntries(sports, cached)],
                 !.pre = Pre]
       ELSE /\ integration_metrics' =
                 [integration_metrics EXCEPT
                    !.total_requests = total,
                    !.data_quality_violations = @ + n * monitored.violations,
                    !.avg_response_time =
                        update_response_time_metric(@, total, response_time)]
            /\ lastOp' = [NoOp EXCEPT
                 !.op = "get_comprehensive_sports_data",
                 !.arg = [sport |-> sport, feed_raises |-> feed_raises,
                          monitor_raises |-> IF n > 0 THEN outcome.raises
                                             ELSE "none",
                          cache_raises |-> cache_raises],
                 !.calls = <<"feed.get_all_sports_data">>
                           \o Repeat(monitored.calls, n),
                 !.result = [Result("data") EXCEPT
                               !.source = "sportradar",
                               !.timestamp = "utc_now",
                               !.cache_status = "api",
                               !.entries = {<<sports[i], "data">> :
                                              i \in 1..Len(sports)}],
                 !.pre = Pre]
    /\ samples' = IF feed_raises THEN samples
                  ELSE Append(samples, response_time)
    /\ UNCHANGED <<initialized, quality_alert_handlers, alert_callbacks,
                   reconciliation_rules, update_subscriptions,
                   event_listeners, sport_cache, closedOnce,
                   requests, snapshot>>

GetComprehensiveSportsData ==
    \E sport \in {None, "nba"}, feed_raises \in BOOLEAN,
       with_data \in {{}, {"nba"}, {"mlb", "nba"}},
       outcome \in MonitorOutcomes, response_time \in Samples,
       cached \in {{}, {"nba"}}, cache_raises \in BOOLEAN :
        /\ feed_raises => with_data = {} /\ outcome.raises = "none"
                          /\ outcome.violations = 0
        /\ ~feed_raises => cached = {} /\ ~cache_raises
        /\ get_comprehensive_sports_data(sport, feed_raises, with_data,
                                         outcome, response_time, cached,
                                         cache_raises)

----------------------------------------------------------------------------
(* get_enhanced_player_data(sport, player_id, user_id) *)

PlayerFailures == {"none", "cache.get_sport_data", "feed.get_player_stats",
                   "monitor.validate_data", "cache.set_sport_data"}

\* the collaborator calls of a call that finds nothing in the cache
PlayerMissCalls(available) ==
    <<"cache.get_sport_data", "feed.get_player_stats">>
    \o (IF available
        THEN <<"monitor.validate_data", "cache.set_sport_data">> ELSE <<>>)

\* a plausible slip: the fetched player data are never stored
CacheAfterMissNotStored(cache, key, stored) == cache

\* the cache after a call: set_sport_data (lines 423-429) stores the fetched
\* data under the key the next get_sport_data looks up
CacheAfterMiss(cache, key, stored) ==
    IF stored THEN cache \cup {key} ELSE cache

\* fail: the collaborator call that raises; available: get_player_stats
\* returns data
get_enhanced_player_data(sport, player_id, user_id, fail, available, response_time) ==
    LET key == <<sport, player_id, user_id>>
        hit == key \in sport_cache /\ fail # "cache.get_sport_data"
        calls == IF hit THEN <<"cache.get_sport_data">>
                 ELSE UpTo(PlayerMissCalls(available), fail)
        raised == fail \in Range(calls)
        stored == ~hit /\ ~raised /\ available
        total == integration_metrics.total_requests + 1
    IN
    /\ integration_metrics.total_requests < MaxCount
    /\ integration_metrics.cache_hits < MaxCount
    /\ integration_metrics' =
         [integration_metrics EXCEPT
            !.total_requests = total,
            !.cache_hits = IF hit THEN @ + 1 ELSE @,
            !.avg_response_time =
                IF stored
                THEN update_response_time_metric(@, total, response_time)
                ELSE @]
    /\ sport_cache' = CacheAfterMiss(sport_cache, key, stored)
    /\ samples' = IF stored THEN Append(samples, response_time) ELSE samples
    /\ lastOp' = [NoOp EXCEPT
         !.op = "get_enhanced_player_data",
         !.arg = [key |-> key, fail |-> fail, available |-> available],
         !.calls = calls,
         !.result =
            IF hit THEN [Result("data") EXCEPT !.source = "cache",
                                               !.timestamp = "utc_now",
                                               !.cache_status = "hit"]
            ELSE IF raised THEN [Result("error") EXCEPT !.error = "str(e)"]
            ELSE IF available
                 THEN [Result("data") EXCEPT !.source = "sportradar",
                                             !.timestamp = "utc_now",
                                             !.cache_status = "miss"]
                 ELSE [Result("error") EXCEPT
                         !.error = "Player data not available"],
         !.pre = Pre]
    /\ UNCHANGED <<initialized, quality_alert_handlers, alert_callbacks,
                   reconciliation_rules, update_subscriptions,
                   event_listeners, closedOnce,
                   requests, snapshot>>

GetEnhancedPlayerData ==
    \E sport \in {"nba"}, player_id \in {"p1"}, user_id \in {None, "u1"},
       fail \in PlayerFailures, available \in BOOLEAN,
       response_time \in Samples :
        get_enhanced_player_data(sport, player_id, user_id, fail, available,
                                 response_time)

----------------------------------------------------------------------------
(* get_live_scores_with_quality_monitoring(sport) *)

\* _warm_related_caches: the warm_cache calls, one per game record with an
\* id, up to the first entry that is no dict or the first call that raises
RECURSIVE WarmCalls(_, _, _)
WarmCalls(games, n, warm_raises) ==
    IF n = 0 THEN [calls |-> <<>>, raised |-> FALSE]
    ELSE LET before == WarmCalls(games, n - 1, warm_raises)
         IN IF before.raised THEN before
            ELSE IF ~games[n].is_dict
                 THEN [calls |-> before.calls, raised |-> TRUE]
                 ELSE IF Get(games[n].id) \in {None, ""} THEN before
                 ELSE [calls |-> Append(before.calls, "cache.warm_cache"),
                       raised |-> warm_raises]

warm_related_caches(live_data, warm_raises) ==
    WarmCalls(live_data.games, Len(live_data.games), warm_raises).calls

\* feed: "raise", "nothing" (None or an empty dict) or "data"
get_live_scores_with_quality_monitoring(sport, feed, live_data, outcome, warm_raises) ==
    LET monitored == monitor_incoming_data(outcome)
    IN
    /\ integration_metrics.data_quality_violations + monitored.violations
            <= MaxCount
    /\ integration_metrics' =
         [integration_metrics EXCEPT
            !.data_quality_violations =
                IF feed = "data" THEN @ + monitored.violations ELSE @]
    /\ lastOp' = [NoOp EXCEPT
         !.op = "get_live_scores_with_quality_monitoring",
         !.arg = sport,
         !.calls = <<"feed.get_live_scores">>
                   \o (IF feed = "data"
                       THEN monitored.calls
                            \o warm_related_caches(live_data, warm_raises)
                       ELSE <<>>),
         !.result =
            IF feed = "data"
            THEN [Result("data") EXCEPT !.source = "sportradar_live",
                                        !.timestamp = "utc_now"]
            ELSE IF feed = "raise"
                 THEN [Result("error") EXCEPT !.error = "str(e)"]
                 ELSE [Result("error") EXCEPT
                         !.error = "Live scores not available"],
         !.pre = Pre]
    /\ UNCHANGED <<initialized, quality_alert_handlers, alert_callbacks,
                   reconciliation_rules, update_subscriptions,
                   event_listeners, sport_cache, closedOnce, samples,
                   requests, snapshot>>

\* the live payloads of Spec
LivePayloads == {Payload(games, FALSE, {}) :
                    games \in SeqsUpTo(PushedGames, MaxGames)}

GetLiveScores ==
    \E sport \in {"nba"}, feed \in {"raise", "nothing", "data"},
       live_data \in LivePayloads, outcome \in MonitorOutcomes,
       warm_raises \in BOOLEAN :
        /\ feed # "data" => /\ live_data.games = <<>>
                            /\ outcome.raises = "none"
                            /\ outcome.violations = 0
                            /\ ~warm_raises
        /\ get_live_scores_with_quality_monitoring(sport, feed, live_data,
                                                   outcome, warm_raises)

----------------------------------------------------------------------------
(* _get_sport_specific_cache_ttl(sport, data_type) *)

\* a plausible slip: the lifetime of live scores as the default
base_ttl_default_live(data_type) ==
    CASE data_type = "live_scores" -> 30
      [] data_type = "player_stats" -> 1800
      [] data_type = "team_stats" -> 3600
      [] data_type = "schedules" -> 7200
      [] data_type = "injury_reports" -> 600
      [] OTHER -> 30

\* base_ttls.get(data_type, 3600), in seconds
base_ttl(data_type) ==
    CASE data_type = "live_scores" -> 30
      [] data_type = "player_stats" -> 1800
      [] data_type = "team_stats" -> 3600
      [] data_type = "schedules" -> 7200
      [] data_type = "injury_reports" -> 600
      [] OTHER -> 3600

\* sport_multipliers.get(sport, 1.0), in tenths
sport_multiplier(sport) ==
    CASE sport = "mlb" -> 12
      [] sport = "nba" -> 8
      [] sport = "nfl" -> 15
      [] sport = "nhl" -> 10
      [] OTHER -> 10

\* int(base_ttl * sport_multiplier): for each of these bases and multipliers
\* the float product is the exact product, so that int() of it is the
\* integer quotient
get_sport_specific_cache_ttl(sport, data_type) ==
    (base_ttl(data_type) * sport_multiplier(sport)) \div 10

\* the sports and the data types the lifetime is asked for: the four of
\* sport_multipliers and another one, the five of base_ttls and another one
TtlSports == {"mlb", "nba", "nfl", "nhl", "soccer"}

TtlDataTypes == {"live_scores", "player_stats", "team_stats", "schedules",
                 "injury_reports", "odds"}

GetSportSpecificCacheTtl ==
    \E sport \in TtlSports, data_type \in TtlDataTypes :
        /\ lastOp' = [NoOp EXCEPT
             !.op = "_get_sport_specific_cache_ttl",
             !.arg = [sport |-> sport, data_type |-> data_type],
             !.result = [Result("value") EXCEPT
                           !.entries = {get_sport_specific_cache_ttl(
                                            sport, data_type)}],
             !.pre = Pre]
        /\ UNCHANGED <<initialized, quality_alert_handlers,
                       integration_metrics, alert_callbacks,
                       reconciliation_rules, update_subscriptions,
                       event_listeners, sport_cache, closedOnce, samples,
                       requests, snapshot>>

----------------------------------------------------------------------------
(* get_health_status(), get_data_quality_dashboard() and a caller that
   writes to the metrics it was given *)

\* whether the metrics object an accessor returns is
\* self.integration_metrics itself: get_health_status puts the dict in its
\* result (line 613), get_data_quality_dashboard a copy of it (line 491)
MetricsShared(accessor) == accessor = "get_health_status"

HealthCalls == <<"feed.get_health_status", "pipeline.get_health_status",
                 "cache.get_metrics", "monitor.get_quality_dashboard">>

\* fail: the collaborator call that raises; there is no try in the method
get_health_status(fail) ==
    LET raised == fail \in Range(HealthCalls)
    IN
    /\ snapshot' = IF raised THEN snapshot
                   ELSE [by |-> "get_health_status",
                         shared |-> MetricsShared("get_health_status"),
                         metrics |-> integration_metrics]
    /\ lastOp' = [NoOp EXCEPT
         !.op = "get_health_status",
         !.arg = fail,
         !.calls = UpTo(HealthCalls, fail),
         !.result = Result(IF raised THEN "raise" ELSE "ok"),
         !.pre = Pre]
    /\ UNCHANGED <<initialized, quality_alert_handlers, integration_metrics,
                   alert_callbacks, reconciliation_rules,
                   update_subscriptions, event_listeners, sport_cache,
                   closedOnce, samples, requests>>

GetHealthStatus ==
    \E fail \in {"none"} \cup Range(HealthCalls) : get_health_status(fail)

DashboardCalls == <<"monitor.get_quality_dashboard", "feed.get_health_status",
                    "pipeline.get_health_status", "cache.get_metrics">>

\* fail: the collaborator call that raises, which makes the method return
\* an error payload
get_data_quality_dashboard(fail) ==
    LET raised == fail \in Range(DashboardCalls)
    IN
    /\ snapshot' = IF raised THEN snapshot
                   ELSE [by |-> "get_data_quality_dashboard",
                         shared |-> MetricsShared("get_data_quality_dashboard"),
                         metrics |-> integration_metrics]
    /\ lastOp' = [NoOp EXCEPT
         !.op = "get_data_quality_dashboard",
         !.arg = fail,
         !.calls = UpTo(DashboardCalls, fail),
         !.result = IF raised
                    THEN [Result("error") EXCEPT !.error = "str(e)"]
                    ELSE Result("ok"),
         !.pre = Pre]
    /\ UNCHANGED <<initialized, quality_alert_handlers, integration_metrics,
                   alert_callbacks, reconciliation_rules,
                   update_subscriptions, event_listeners, sport_cache,
                   closedOnce, samples, requests>>

GetDataQualityDashboard ==
    \E fail \in {"none"} \cup Range(DashboardCalls) :
        get_data_quality_dashboard(fail)

\* the caller sets total_requests in the metrics object it was last given:
\* the object is the manager's own dict or a dict of the caller's
caller_writes(value) ==
    /\ snapshot.by # None
    /\ snapshot' = [snapshot EXCEPT !.metrics.total_requests = value]
    /\ integration_metrics' =
         IF snapshot.shared
         THEN [integration_metrics EXCEPT !.total_requests = value]
         ELSE integration_metrics
    /\ lastOp' = [NoOp EXCEPT !.op = "caller_writes", !.arg = value,
                              !.result = Result("ok"), !.pre = Pre]
    /\ UNCHANGED <<initialized, quality_alert_handlers, alert_callbacks,
                   reconciliation_rules, update_subscriptions,
                   event_listeners, sport_cache, closedOnce, samples,
                   requests>>

CallerWrites == \E value \in {0, MaxCount} : caller_writes(value)

\* what the caller reads in the metrics object it was last given
SnapshotView ==
    IF snapshot.shared THEN integration_metrics ELSE snapshot.metrics

----------------------------------------------------------------------------
(* game_state_listener handed an event by the event bus, whoever emitted it *)

\* the call game_state_listener makes for an event, the game-state updates
\* the volatility model makes when the call returns, and whether an
\* exception leaves the listener: the whole body is in one try (lines
\* 223-231).  update_raises: update_game_state raises
game_state_listener_outcome(event, update_raises) ==
    LET forwards == game_state_listener(event) = "update_game_state"
    IN [calls |-> IF forwards THEN <<"volatility.update_game_state">>
                  ELSE <<>>,
        updates |-> IF forwards /\ ~update_raises
                    THEN {<<event.game_id,
                            PayloadGet(event.payload, "new_state")>>}
                    ELSE {},
        propagated |-> FALSE]

\* the GAME_STATE_CHANGE events of the event bus: with and without a game
\* id, with a new_state that is a GameState, that is none, that is empty or
\* null, and without new_state
GameStateEvents ==
    {Event("game_state_change", "sportradar", None, game_id, None,
           IF new_state = Absent THEN {} ELSE {<<"new_state", new_state>>},
           "pattern") :
        game_id \in {None, "", "g1"},
        new_state \in {Absent, None, "", "live", "final", "postponed"}}

\* the event bus hands an event to the registered game_state_listener
dispatch_game_state_change(event, update_raises) ==
    LET outcome == game_state_listener_outcome(event, update_raises)
    IN
    /\ Len(event_listeners["game_state_change"]) > 0
    /\ lastOp' = [NoOp EXCEPT
         !.op = "game_state_listener",
         !.arg = [event |-> event, update_raises |-> update_raises],
         !.calls = outcome.calls,
         !.invoked = <<Invoke("game_state_listener", event, 1)>>,
         !.result = [Result(IF outcome.propagated THEN "raise" ELSE "ok")
                       EXCEPT !.entries = outcome.updates],
         !.pre = Pre]
    /\ UNCHANGED <<initialized, quality_alert_handlers, integration_metrics,
                   alert_callbacks, reconciliation_rules,
                   update_subscriptions, event_listeners, sport_cache,
                   closedOnce, samples, requests, snapshot>>

DispatchGameStateChange ==
    \E event \in GameStateEvents, update_raises \in BOOLEAN :
        dispatch_game_state_change(event, update_raises)

----------------------------------------------------------------------------
(* score_update_listener handed an event by the event bus while read
   requests are in flight *)

\* a SCORE_UPDATE event of the event bus
ScoreUpdateEvents ==
    {Event("score_update", "sportradar", None, "g1", "live_scores",
           {<<"home_score", "3">>, <<"away_score", "2">>}, "pattern")}

\* the requests that have begun and not returned
InFlight ==
    {r \in DOMAIN requests : requests[r].pc \notin {"new", "scheduled", "done"}}

\* the event bus hands an event to the registered score_update_listeners:
\* each counts a request (line 237), with no await before or after
dispatch_score_update(event) ==
    LET invoked == Dispatch(event, 1)
    IN
    /\ invoked # <<>>
    /\ integration_metrics.total_requests + ScoreUpdates(invoked) <= MaxCount
    /\ integration_metrics' =
         [integration_metrics EXCEPT
            !.total_requests = @ + ScoreUpdates(invoked)]
    /\ lastOp' = [NoOp EXCEPT !.op = "score_update_listener",
                              !.arg = [event |-> event,
                                       in_flight |-> InFlight # {}],
                              !.invoked = invoked,
                              !.result = Result("ok")]
    /\ UNCHANGED <<initialized, quality_alert_handlers, alert_callbacks,
                   reconciliation_rules, update_subscriptions,
                   event_listeners, sport_cache, closedOnce, samples,
                   requests, snapshot>>

DispatchScoreUpdate ==
    \E event \in ScoreUpdateEvents : dispatch_score_update(event)

----------------------------------------------------------------------------
(* Concurrent read requests: each coroutine runs from one await to the next
   without interruption, and the event loop resumes any suspended one *)

RequestKinds == {"get_comprehensive_sports_data", "get_enhanced_player_data"}

\* the cache key of the concurrent player fetches
PlayerKey == <<"nba", "p1", None>>

\* what the steps of a request leave alone
untouched == <<initialized, quality_alert_handlers, alert_callbacks,
               reconciliation_rules, update_subscriptions, event_listeners,
               closedOnce, snapshot, lastOp>>

\* a plausible slip: the counter written back from the value it had when the
\* request was made
CountRequestFromSeen(current, seen) == seen + 1

\* integration_metrics["total_requests"] += 1 (lines 344, 387): the counter
\* is read and written with no await in between
CountRequest(current, seen) == current + 1

\* the request r as it moves to pc with the given status
Advance(r, pc, status) ==
    [requests EXCEPT ![r].pc = pc, ![r].status = status]

\* a caller makes the request r: the coroutine is created, not yet run
Schedule(r, kind) ==
    /\ requests[r].pc = "new"
    /\ requests' = [requests EXCEPT
                      ![r] = [kind |-> kind, pc |-> "scheduled",
                              seen |-> integration_metrics.total_requests,
                              status |-> None]]
    /\ UNCHANGED <<untouched, integration_metrics, sport_cache, samples>>

\* a plausible slip: the request counted where its fetch completes, not
\* where the coroutine begins
BeginUncounted(r) ==
    /\ requests[r].pc = "scheduled"
    /\ requests' = Advance(r, IF requests[r].kind = "get_enhanced_player_data"
                              THEN "cache.get_sport_data"
                              ELSE "feed.get_all_sports_data", None)
    /\ UNCHANGED <<untouched, integration_metrics, sport_cache, samples>>

\* the coroutine runs to its first await (lines 343-352, 386-394)
Begin(r) ==
    /\ requests[r].pc = "scheduled"
    /\ integration_metrics' =
         [integration_metrics EXCEPT
            !.total_requests = CountRequest(@, requests[r].seen)]
    /\ requests' = Advance(r, IF requests[r].kind = "get_enhanced_player_data"
                              THEN "cache.get_sport_data"
                              ELSE "feed.get_all_sports_data", None)
    /\ UNCHANGED <<untouched, sport_cache, samples>>

\* get_sport_data returns or raises (lines 389-408)
PlayerCacheReturns(r, raises) ==
    /\ requests[r].kind = "get_enhanced_player_data"
    /\ requests[r].pc = "cache.get_sport_data"
    /\ IF raises
       THEN /\ requests' = Advance(r, "done", "error")
            /\ UNCHANGED integration_metrics
       ELSE IF PlayerKey \in sport_cache
       THEN /\ requests' = Advance(r, "done", "hit")
            /\ integration_metrics' =
                 [integration_metrics EXCEPT !.cache_hits = @ + 1]
       ELSE /\ requests' = Advance(r, "feed.get_player_stats", None)
            /\ UNCHANGED integration_metrics
    /\ UNCHANGED <<untouched, sport_cache, samples>>

\* get_player_stats returns or raises (lines 411-413, 446)
PlayerFeedReturns(r, raises, available) ==
    /\ requests[r].kind = "get_enhanced_player_data"
    /\ requests[r].pc = "feed.get_player_stats"
    /\ requests' = IF raises \/ ~available THEN Advance(r, "done", "error")
                   ELSE Advance(r, "monitor.validate_data", None)
    /\ UNCHANGED <<untouched, integration_metrics, sport_cache, samples>>

\* validate_data returns or raises (lines 415-418)
PlayerValidateReturns(r, raises) ==
    /\ requests[r].kind = "get_enhanced_player_data"
    /\ requests[r].pc = "monitor.validate_data"
    /\ requests' = IF raises THEN Advance(r, "done", "error")
                   ELSE Advance(r, "cache.set_sport_data", None)
    /\ UNCHANGED <<untouched, integration_metrics, sport_cache, samples>>

\* set_sport_data returns or raises (lines 421-444)
PlayerSetReturns(r, raises, response_time) ==
    /\ requests[r].kind = "get_enhanced_player_data"
    /\ requests[r].pc = "cache.set_sport_data"
    /\ IF raises
       THEN /\ requests' = Advance(r, "done", "error")
            /\ UNCHANGED <<integration_metrics, sport_cache, samples>>
       ELSE /\ requests' = Advance(r, "done", "miss")
            /\ sport_cache' = CacheAfterMiss(sport_cache, PlayerKey, TRUE)
            /\ samples' = Append(samples, response_time)
            /\ integration_metrics' =
                 [integration_metrics EXCEPT
                    !.avg_response_time =
                       update_response_time_metric(
                           @, integration_metrics.total_requests,
                           response_time)]
    /\ UNCHANGED untouched

\* get_all_sports_data returns or raises (lines 352, 373-376)
ComprehensiveFeedReturns(r, raises) ==
    /\ requests[r].kind = "get_comprehensive_sports_data"
    /\ requests[r].pc = "feed.get_all_sports_data"
    /\ requests' = IF raises THEN Advance(r, "cache.get", None)
                   ELSE Advance(r, "monitor.validate_data", None)
    /\ UNCHANGED <<untouched, integration_metrics, sport_cache, samples>>

\* the monitoring of the one sport with data is over, whether it raised
\* inside _monitor_incoming_data or not (lines 355-371)
ComprehensiveMonitored(r, response_time) ==
    /\ requests[r].kind = "get_comprehensive_sports_data"
    /\ requests[r].pc = "monitor.validate_data"
    /\ requests' = Advance(r, "done", "api")
    /\ samples' = Append(samples, response_time)
    /\ integration_metrics' =
         [integration_metrics EXCEPT
            !.avg_response_time =
               update_response_time_metric(
                   @, integration_metrics.total_requests, response_time)]
    /\ UNCHANGED <<untouched, sport_cache>>

\* the cache lookup of _get_fallback_data returns or raises (lines 568-588)
ComprehensiveFallbackReturns(r, raises) ==
    /\ requests[r].kind = "get_comprehensive_sports_data"
    /\ requests[r].pc = "cache.get"
    /\ requests' = Advance(r, "done", IF raises THEN "raise" ELSE "fallback")
    /\ UNCHANGED <<untouched, integration_metrics, sport_cache, samples>>

\* one step of one of the concurrent requests
RequestStep ==
    \E r \in RequestIds :
        \/ \E kind \in RequestKinds : Schedule(r, kind)
        \/ Begin(r)
        \/ \E raises \in BOOLEAN : PlayerCacheReturns(r, raises)
        \/ \E raises \in BOOLEAN, available \in BOOLEAN :
              PlayerFeedReturns(r, raises, available)
        \/ \E raises \in BOOLEAN : PlayerValidateReturns(r, raises)
        \/ \E raises \in BOOLEAN, response_time \in Samples :
              PlayerSetReturns(r, raises, response_time)
        \/ \E raises \in BOOLEAN : ComprehensiveFeedReturns(r, raises)
        \/ \E response_time \in Samples : ComprehensiveMonitored(r, response_time)
        \/ \E raises \in BOOLEAN : ComprehensiveFallbackReturns(r, raises)

----------------------------------------------------------------------------

(* Specifications.  The manager's operations fall into three groups that
   share no field but the counters: the lifecycle with the pushed payloads
   (Spec), the read path (SpecRead) and the quality alerts (SpecQuality). *)

Next ==
    \/ Initialize
    \/ Close
    \/ PushCallback

Spec == Init /\ [][Next]_vars

\* the read path, before and after an initialize() and a close() in which
\* no collaborator call raises
NextRead ==
    \/ \E api_key \in BOOLEAN : initialize("none", api_key)
    \/ close("none")
    \/ GetComprehensiveSportsData
    \/ GetEnhancedPlayerData
    \/ GetLiveScores

SpecRead == Init /\ [][NextRead]_vars

NextQuality ==
    \/ RegisterQualityAlertHandler
    \/ HandleQualityViolation

SpecQuality == Init /\ [][NextQuality]_vars

\* a live-scores call whose feed returns a payload without games and whose
\* monitoring reports some number of violations
GetLiveScoresMonitored ==
    \E violations \in 0..MaxViolations :
        get_live_scores_with_quality_monitoring(
            "nba", "data", Payload(<<>>, FALSE, {}),
            [violations |-> violations, raises |-> "none"], FALSE)

\* the fetches of a manager that is started and closed: as NextRead, with
\* the live payloads left out
NextFetch ==
    \/ \E api_key \in BOOLEAN : initialize("none", api_key)
    \/ close("none")
    \/ GetComprehensiveSportsData
    \/ GetEnhancedPlayerData
    \/ GetLiveScoresMonitored

SpecFetch == Init /\ [][NextFetch]_vars

\* the cache lifetimes, asked of a manager that is started and closed
NextTtl ==
    \/ \E api_key \in BOOLEAN : initialize("none", api_key)
    \/ close("none")
    \/ GetSportSpecificCacheTtl

SpecTtl == Init /\ [][NextTtl]_vars

\* the accessors of the metrics, their callers and the player fetches that
\* go on counting
NextSnapshot ==
    \/ GetHealthStatus
    \/ GetDataQualityDashboard
    \/ CallerWrites
    \/ GetEnhancedPlayerData

SpecSnapshot == Init /\ [][NextSnapshot]_vars

\* the lifecycle alone: initialize() and close() with each of their failures
NextLifecycle ==
    \/ Initialize
    \/ Close

SpecLifecycle == Init /\ [][NextLifecycle]_vars

\* the default listeners of a started and of a closed manager, handed the events of the bus
NextListener ==
    \/ \E api_key \in BOOLEAN : initialize("none", api_key)
    \/ close("none")
    \/ DispatchGameStateChange

SpecListener == Init /\ [][NextListener]_vars

\* concurrent read requests of a manager that is started once, at any point
\* among them, and a score event of the bus at any point after that
NextInterleaved ==
    \/ /\ lastOp.op = "init"
       /\ initialize("none", TRUE)
    \/ RequestStep
    \/ /\ lastOp.op = "initialize"
       /\ DispatchScoreUpdate

SpecInterleaved == Init /\ [][NextInterleaved]_vars

\* concurrent read requests of a manager just constructed
SpecConcurrent == Init /\ [][RequestStep]_vars

\* the derivation of events: initialize() calls, then one payload pushed or
\* one violation handled
NextDerive ==
    \/ /\ lastOp.op \in {"init", "initialize"}
       /\ \E api_key \in BOOLEAN : initialize("none", api_key)
    \/ DeriveCallback
    \/ DeriveViolation

SpecDerive == Init /\ [][NextDerive]_vars

----------------------------------------------------------------------------
(* Properties *)

ReadOps == {"get_comprehensive_sports_data", "get_enhanced_player_data",
            "get_live_scores_with_quality_monitoring"}

\* the registrations initialize() makes once the starts are done
RegistrationCalls == Range(QualityMonitoringCalls) \cup Range(ReconciliationCalls)
                     \cup Range(RealtimeCalls)

\* the starts whose failure is not tolerated
FatalStarts == {"pipeline.initialize", "cache.initialize",
                "event_bus.initialize", "monitor.initialize"}

\* the invocations of a listener for the i-th event of the last operation
Invocations(listener, i) ==
    Cardinality({k \in 1..Len(lastOp.invoked) :
                    /\ lastOp.invoked[k].listener = listener
                    /\ lastOp.invoked[k].event = i})

\* the position of a call among the calls of the last operation, 0 if absent
CallIndex(c) ==
    IF c \in Range(lastOp.calls)
    THEN CHOOSE i \in 1..Len(lastOp.calls) : lastOp.calls[i] = c
    ELSE 0

\* C1: initialize() is not re-entrant: whatever initialize() calls came
\* before, an emitted GAME_STATE_CHANGE event that the event bus accepts
\* triggers the game-state listener exactly once.
C1_GameStateListenerOnce ==
    \A i \in 1..lastOp.delivered :
        lastOp.events[i].event_type = "game_state_change"
            => Invocations("game_state_listener", i) = 1

\* C2: a data-access operation invoked while the orchestrator is not Ready
\* fails with NotInitialized and calls no collaborator.
C2_NotReadyIsRejected ==
    (lastOp.op \in ReadOps /\ ~lastOp.pre.initialized)
        => /\ lastOp.result.kind = "error"
           /\ lastOp.result.error = "NotInitialized"
           /\ lastOp.calls = <<>>

\* C3: close() is idempotent: it leaves the orchestrator non-Ready, and a
\* close() of a closed orchestrator succeeds and calls close on no
\* collaborator.
C3_CloseIdempotent ==
    (lastOp.op = "close" /\ lastOp.arg = "none")
        => /\ lastOp.result.kind = "ok"
           /\ ~initialized
           /\ (lastOp.pre.closedOnce /\ ~lastOp.pre.initialized
                    => lastOp.calls = <<>>)

\* C4: Closed is terminal: once a close() has completed, the orchestrator
\* is never Ready again.
C4_ClosedIsTerminal == closedOnce => ~initialized

\* C5: when the start of the pipeline, the cache, the event bus or the
\* quality monitor fails, initialize() stops at that call, registers
\* nothing, leaves the orchestrator not Ready and reports the failure.
C5_FatalStartAborts ==
    (lastOp.op = "initialize" /\ lastOp.arg.fail \in FatalStarts)
        => /\ lastOp.calls[Len(lastOp.calls)] = lastOp.arg.fail
           /\ Range(lastOp.calls) \cap RegistrationCalls = {}
           /\ ~initialized
           /\ lastOp.result.kind = "False"

\* C6: however the feed-client start fails, by reporting unavailability or
\* by raising, initialize() starts the quality monitor, makes all the
\* registrations and reaches Ready when no other call fails.
C6_FeedFailureTolerated ==
    (lastOp.op = "initialize"
        /\ lastOp.arg.fail \in {"feed_unavailable", "feed.initialize"})
        => /\ "monitor.initialize" \in Range(lastOp.calls)
           /\ RegistrationCalls \subseteq Range(lastOp.calls)
           /\ initialized
           /\ lastOp.result.kind = "True"

\* C7: a close() in which no call fails closes the quality monitor, then the
\* event bus, then the cache service, then the data pipeline, and does not
\* close the feed client.
C7_ReverseOrderClose ==
    (lastOp.op = "close" /\ lastOp.arg = "none")
        => /\ "feed.close" \notin Range(lastOp.calls)
           /\ 0 < CallIndex("monitor.close")
           /\ CallIndex("monitor.close") < CallIndex("event_bus.close")
           /\ CallIndex("event_bus.close") < CallIndex("cache.close")
           /\ CallIndex("cache.close") < CallIndex("pipeline.close")

\* C8: every call of _handle_quality_violation adds exactly one to the
\* quality-violation counter, for every severity, whether or not the
\* emission raised and whichever handlers failed.
C8_ViolationCountedOnce ==
    lastOp.op = "handle_quality_violation"
        => integration_metrics.data_quality_violations
             = lastOp.pre.metrics.data_quality_violations + 1

\* the case of C8: a warning whose handler failed has been handled
C8_Witness ==
    /\ lastOp.op = "handle_quality_violation"
    /\ lastOp.arg.severity = "warning"
    /\ lastOp.failed # {}
    /\ integration_metrics.data_quality_violations = 2

\* C9: for a violation of severity error or critical exactly one event is
\* emitted, of type DATA_SOURCE_UPDATE, of scope PATTERN, with the rule name
\* and the severity in its payload; for a warning no event is emitted.
C9_OneEventWhenSevere ==
    lastOp.op = "handle_quality_violation"
        => IF lastOp.arg.severity \in {"error", "critical"}
           THEN /\ Len(lastOp.events) = 1
                /\ lastOp.calls = <<"event_bus.emit_event">>
                /\ lastOp.events[1].event_type = "data_source_update"
                /\ lastOp.events[1].invalidation_scope = "pattern"
                /\ PayloadGet(lastOp.events[1].payload, "violation")
                     = lastOp.arg.rule_name
                /\ PayloadGet(lastOp.events[1].payload, "severity")
                     = lastOp.arg.severity
           ELSE lastOp.events = <<>> /\ lastOp.calls = <<>>

\* the case of C9: a critical violation has been handled and its event
\* accepted by the event bus
C9_Witness ==
    /\ lastOp.op = "handle_quality_violation"
    /\ lastOp.arg.severity = "critical"
    /\ lastOp.arg.rule_name = "freshness"
    /\ lastOp.delivered = 1

\* C10: for every violation, every registered handler is invoked exactly
\* once, in registration order, whatever the outcome of the emission.
C10_AllHandlersNotified ==
    lastOp.op = "handle_quality_violation"
        => lastOp.handled = lastOp.pre.handlers

\* C11: the fan-out to the quality-alert handlers is fault isolated: when some
\* of the registered handlers raise, every registered handler, the failing
\* ones and all the others, has still been invoked once in registration
\* order, and _handle_quality_violation returns normally.
C11_FanOutIsolated ==
    (lastOp.op = "handle_quality_violation" /\ lastOp.failed # {})
        => /\ \A h \in Range(lastOp.pre.handlers) \ lastOp.failed :
                 \E i \in 1..Len(lastOp.handled) : lastOp.handled[i] = h
           /\ Len(lastOp.handled) = Len(lastOp.pre.handlers)
           /\ lastOp.result.kind = "ok"

\* the case of C11: the first of two registered handlers raised and the
\* second one was invoked after it
C11_Witness ==
    /\ lastOp.op = "handle_quality_violation"
    /\ lastOp.pre.handlers = <<"h1", "h2">>
    /\ lastOp.failed = {"h1"}
    /\ lastOp.handled = <<"h1", "h2">>

\* the emit_event calls of the last operation that carry an event of the
\* given type for the given game
EventIndices(event_type, game_id) ==
    {i \in 1..Len(lastOp.events) :
        /\ lastOp.events[i].event_type = event_type
        /\ lastOp.events[i].game_id = game_id}

\* the ids a game record can carry
GameIds == {"g1", "g2"}

HasScore(game) == Get(game.home_score) # None \/ Get(game.away_score) # None

HasStatus(game) == Get(game.status) \notin {None, ""}

\* the records of a games collection that carry the id and a score
ScoreRecords(games, id) ==
    {n \in 1..Len(games) : games[n].id = id /\ HasScore(games[n])}

\* the records of a games collection that carry the id and a status
StatusRecords(games, id) ==
    {n \in 1..Len(games) : games[n].id = id /\ HasStatus(games[n])}

\* the derivation ran to its end: every entry of the games collection is a
\* record and every emit_event call returned
DerivationCompleted ==
    /\ \A n \in 1..Len(lastOp.arg.games) : lastOp.arg.games[n].is_dict
    /\ lastOp.delivered = Len(lastOp.events)

\* C12: for a payload with a games collection of game records, when every
\* emit_event call returns, each record with a non-empty id produces exactly
\* one SCORE_UPDATE event if it has a score (scope RELATED, the record's id,
\* both score values in the payload) and exactly one GAME_STATE_CHANGE event
\* if it has a status (scope PATTERN, the record's id, new_state the status);
\* a record without an id produces no event.
C12_GameEvents ==
    (/\ lastOp.op = "sportradar_quality_callback"
     /\ lastOp.arg.has_games
     /\ DerivationCompleted)
        => /\ \A id \in GameIds :
                 /\ Cardinality(EventIndices("score_update", id))
                      = Cardinality(ScoreRecords(lastOp.arg.games, id))
                 /\ Cardinality(EventIndices("game_state_change", id))
                      = Cardinality(StatusRecords(lastOp.arg.games, id))
                 /\ \A i \in EventIndices("score_update", id) :
                      /\ lastOp.events[i].invalidation_scope = "related"
                      /\ \E n \in ScoreRecords(lastOp.arg.games, id) :
                            lastOp.events[i].payload
                              = {<<"home_score", Get(lastOp.arg.games[n].home_score)>>,
                                 <<"away_score", Get(lastOp.arg.games[n].away_score)>>}
                 /\ \A i \in EventIndices("game_state_change", id) :
                      /\ lastOp.events[i].invalidation_scope = "pattern"
                      /\ \E n \in StatusRecords(lastOp.arg.games, id) :
                            PayloadGet(lastOp.events[i].payload, "new_state")
                              = lastOp.arg.games[n].status
           /\ \A i \in 1..Len(lastOp.events) :
                 lastOp.events[i].event_type \in {"score_update",
                                                   "game_state_change"}
                    => lastOp.events[i].game_id \in GameIds

\* the case of C12: a complete record of game g1 followed by a complete
\* record without an id gave the two events of g1 and nothing else
C12_Witness ==
    /\ lastOp.op = "sportradar_quality_callback"
    /\ lastOp.arg.games = <<GameRecord("g1", "3", "2", "live"),
                            GameRecord("", "3", "2", "live")>>
    /\ ~lastOp.arg.odds /\ ~lastOp.arg.injuries
    /\ Len(lastOp.events) = 2
    /\ lastOp.delivered = 2

\* the emit_event calls of the last operation that carry an event of the
\* given type
EventsOfType(event_type) ==
    {i \in 1..Len(lastOp.events) : lastOp.events[i].event_type = event_type}

\* C13: a payload with an odds key, a bookmakers key or both, and without a
\* games collection, produces exactly one ODDS_CHANGE event, of scope
\* PATTERN, and no SCORE_UPDATE or GAME_STATE_CHANGE event.
C13_OneOddsChange ==
    (/\ lastOp.op = "sportradar_quality_callback"
     /\ ~lastOp.arg.has_games
     /\ (lastOp.arg.odds \/ lastOp.arg.bookmakers))
        => /\ Cardinality(EventsOfType("odds_change")) = 1
           /\ \A i \in EventsOfType("odds_change") :
                 lastOp.events[i].invalidation_scope = "pattern"
           /\ EventsOfType("score_update") = {}
           /\ EventsOfType("game_state_change") = {}

\* the case of C13: a payload with both keys and no games collection gave
\* its ODDS_CHANGE event to the event bus
C13_Witness ==
    /\ lastOp.op = "sportradar_quality_callback"
    /\ ~lastOp.arg.has_games
    /\ lastOp.arg.odds /\ lastOp.arg.bookmakers
    /\ lastOp.delivered >= 1
    /\ lastOp.events[1].event_type = "odds_change"

\* C14: _emit_cache_events_from_data never raises to its caller: for every
\* payload, malformed game records included, and every failing emit_event
\* call, the callback that invoked it returns normally.
C14_DerivationNeverRaises ==
    lastOp.op = "sportradar_quality_callback"
        => lastOp.result.kind = "ok"

\* the case of C14: an emit_event call raised in the derivation and the
\* callback returned
C14_Witness ==
    /\ lastOp.op = "sportradar_quality_callback"
    /\ lastOp.caught # "none"
    /\ lastOp.delivered < Len(lastOp.events)
    /\ lastOp.result.kind = "ok"

\* C15: a failure in the games branch, a malformed record or a raising
\* emit_event call, does not keep the other payload shapes from being
\* detected: the ODDS_CHANGE event of a payload with an odds or bookmakers
\* key and the INJURY_REPORT event of a payload with an injuries or
\* injury_reports key are still emitted.
C15_ShapesIndependent ==
    (lastOp.op = "sportradar_quality_callback" /\ lastOp.caught = "games")
        => /\ (lastOp.arg.odds \/ lastOp.arg.bookmakers)
                 => Cardinality(EventsOfType("odds_change")) = 1
           /\ (lastOp.arg.injuries \/ lastOp.arg.injury_reports)
                 => Cardinality(EventsOfType("injury_report")) = 1

\* the members of InvalidationScope
InvalidationScopes == {"exact", "related", "pattern"}

\* C16: every event handed to the event bus, from a pushed payload or from a
\* violation, has a non-empty source and one of the invalidation scopes, and
\* every SCORE_UPDATE or GAME_STATE_CHANGE event carries a non-empty game_id.
C16_EventsWellFormed ==
    \A i \in 1..Len(lastOp.events) :
        /\ lastOp.events[i].source \notin {None, ""}
        /\ lastOp.events[i].invalidation_scope \in InvalidationScopes
        /\ lastOp.events[i].event_type \in {"score_update", "game_state_change"}
              => lastOp.events[i].game_id \notin {None, "", Absent}

\* the case of C16: a complete record without an id came before a complete
\* record of game g1 and only the latter gave events
C16_Witness ==
    /\ lastOp.op = "sportradar_quality_callback"
    /\ lastOp.arg.games = <<GameRecord(Absent, "3", "2", "live"),
                            GameRecord("g1", "3", "2", "live")>>
    /\ Len(lastOp.events) >= 2
    /\ lastOp.events[1].event_type = "score_update"
    /\ lastOp.events[1].game_id = "g1"

\* the sum of a sequence of numbers
RECURSIVE SumSeq(_)
SumSeq(q) == IF q = <<>> THEN 0 ELSE q[1] + SumSeq(Tail(q))

\* C17: after any sequence of operations avg_response_time is the arithmetic
\* mean of the response times handed to _update_response_time_metric so far
\* (and its initial 0 while there are none).
C17_AverageIsMean ==
    integration_metrics.avg_response_time
        = IF samples = <<>> THEN <<0, 1>>
          ELSE Fraction(SumSeq(samples), Len(samples))

\* the counters of integration_metrics
Counters == {"total_requests", "cache_hits", "data_quality_violations",
             "cross_source_discrepancies"}

\* C18: no operation, initialize() and close() included, lowers one of the
\* counters total_requests, cache_hits, data_quality_violations and
\* cross_source_discrepancies: each is at least what the operation found.
C18_CountersNeverDecrease ==
    \A c \in Counters : lastOp.pre.metrics[c] <= integration_metrics[c]

\* the case of C18: a close() of a manager that has counted requests and
\* cache hits
C18_Witness ==
    /\ lastOp.op = "close"
    /\ lastOp.pre.metrics.total_requests = 2
    /\ lastOp.pre.metrics.cache_hits = 1
    /\ integration_metrics.total_requests = 2

\* a player fetch none of whose collaborator calls raises and for which the
\* feed client has data
PlayerFetchWithData(op) ==
    /\ op.op = "get_enhanced_player_data"
    /\ op.arg.fail = "none"
    /\ op.arg.available

\* one step of the manager, for C19
PlayerFetchStep ==
    /\ (PlayerFetchWithData(lastOp') /\ lastOp'.arg.key \notin sport_cache)
          => /\ lastOp'.result.kind = "data"
             /\ lastOp'.result.cache_status = "miss"
             /\ lastOp'.arg.key \in sport_cache'
    /\ (/\ PlayerFetchWithData(lastOp)
        /\ lastOp.result.cache_status = "miss"
        /\ lastOp'.op = "get_enhanced_player_data"
        /\ lastOp'.arg.key = lastOp.arg.key
        /\ lastOp'.arg.fail # "cache.get_sport_data")
          => /\ lastOp'.result.kind = "data"
             /\ lastOp'.result.cache_status = "hit"
             /\ integration_metrics'.cache_hits
                  = integration_metrics.cache_hits + 1
             /\ \A i \in 1..Len(lastOp'.calls) :
                   lastOp'.calls[i] # "feed.get_player_stats"

\* C19: a player fetch for a (sport, player id, user id) that is not in the
\* cache and for which the feed client has data returns cache status miss
\* and leaves the data in the cache; a fetch with the same parameters that
\* follows it immediately, and whose cache lookup returns, has cache status
\* hit, adds one to cache_hits and does not call the feed client.
C19_MissThenHit == [][PlayerFetchStep]_vars

\* the case of C19: the second of two fetches for (nba, p1, u1) was a hit,
\* the first and only request before it having filled the cache
C19_Witness ==
    /\ lastOp.op = "get_enhanced_player_data"
    /\ lastOp.arg.key = <<"nba", "p1", "u1">>
    /\ lastOp.result.cache_status = "hit"
    /\ lastOp.pre.metrics.total_requests = 1
    /\ lastOp.pre.metrics.cache_hits = 0
    /\ integration_metrics.cache_hits = 1

\* the cache-status tags of an envelope
CacheStatusTags == {"hit", "miss", "api", "fallback"}

\* C20: on every path of the three read operations that returns data, the
\* envelope's metadata carry a source identifier, a UTC timestamp and a
\* cache-status tag that is one of hit, miss, api and fallback.
C20_EnvelopeMetadata ==
    (lastOp.op \in ReadOps /\ lastOp.result.kind = "data")
        => /\ lastOp.result.source \notin {None, ""}
           /\ lastOp.result.timestamp = "utc_now"
           /\ lastOp.result.cache_status \in CacheStatusTags

\* C21: get_comprehensive_sports_data never raises: whenever a collaborator
\* call fails, of the feed client, of the quality monitor or the cache lookup
\* made for the fallback, it returns an envelope of cache status fallback
\* with one entry per requested sport, each the value cached under the
\* sport's fallback key or the placeholder.
C21_FallbackOnAnyFailure ==
    (/\ lastOp.op = "get_comprehensive_sports_data"
     /\ \/ lastOp.arg.feed_raises
        \/ lastOp.arg.monitor_raises # "none"
        \/ lastOp.arg.cache_raises)
        => /\ lastOp.result.kind = "data"
           /\ lastOp.result.cache_status = "fallback"
           /\ {e[1] : e \in lastOp.result.entries}
                = Range(SportsToFetch(lastOp.arg.sport))
           /\ \A e \in lastOp.result.entries : e[2] \in {"cached", "placeholder"}

\* the requests whose coroutine has begun to run
BegunRequests == {r \in RequestIds : requests[r].pc \notin {"new", "scheduled"}}

\* the requests that returned the envelope of cache status hit
HitRequests == {r \in RequestIds : requests[r].status = "hit"}

\* C22: no increment is lost among concurrent read requests: however the
\* comprehensive and player fetches interleave at their feed-client, cache
\* and quality-monitor calls, total_requests has grown by one for every
\* request begun and cache_hits by one for every request that returned hit;
\* once all k requests are done that is k and the number of hits.
C22_NoLostUpdate ==
    /\ integration_metrics.total_requests = Cardinality(BegunRequests)
    /\ integration_metrics.cache_hits = Cardinality(HitRequests)

\* the case of C22: two player fetches made before either was counted have
\* both completed, the second one finding what the first one stored
C22_Witness ==
    /\ \A r \in {1, 2} : /\ requests[r].kind = "get_enhanced_player_data"
                         /\ requests[r].pc = "done"
                         /\ requests[r].seen = 0
    /\ requests[1].status = "miss"
    /\ requests[2].status = "hit"
    /\ integration_metrics.total_requests = 2
    /\ integration_metrics.cache_hits = 1

\* the lifetime the last _get_sport_specific_cache_ttl call returned
ReturnedTtl == CHOOSE ttl \in lastOp.result.entries : TRUE

\* C23: the lifetime of a sport and a data type is the base lifetime of the
\* data type (live_scores 30, player_stats 1800, team_stats 3600, schedules
\* 7200, injury_reports 600, any other 3600) times the factor of the sport
\* (MLB 1.2, NBA 0.8, NFL 1.5, NHL 1.0, any other 1.0), truncated to an
\* integer; for NBA live_scores it is 24 and for NFL schedules 10800.
C23_TtlIsBaseTimesFactor ==
    lastOp.op = "_get_sport_specific_cache_ttl"
        => LET base == IF lastOp.arg.data_type = "live_scores" THEN 30
                       ELSE IF lastOp.arg.data_type = "player_stats" THEN 1800
                       ELSE IF lastOp.arg.data_type = "schedules" THEN 7200
                       ELSE IF lastOp.arg.data_type = "injury_reports" THEN 600
                       ELSE 3600
               tenths == IF lastOp.arg.sport = "mlb" THEN 12
                         ELSE IF lastOp.arg.sport = "nba" THEN 8
                         ELSE IF lastOp.arg.sport = "nfl" THEN 15
                         ELSE 10
           IN /\ ReturnedTtl \in Nat
              /\ 10 * ReturnedTtl <= base * tenths
              /\ base * tenths < 10 * (ReturnedTtl + 1)
              /\ (lastOp.arg.sport = "nba" /\ lastOp.arg.data_type = "live_scores")
                    => ReturnedTtl = 24
              /\ (lastOp.arg.sport = "nfl" /\ lastOp.arg.data_type = "schedules")
                    => ReturnedTtl = 10800

\* the case of C23: the lifetime of a data type outside base_ttls was asked
\* for the MLB and is 4320
C23_Witness ==
    /\ lastOp.op = "_get_sport_specific_cache_ttl"
    /\ lastOp.arg.sport = "mlb"
    /\ lastOp.arg.data_type = "odds"
    /\ ReturnedTtl = 4320

\* C24: the metrics are read-only externally: a write of the caller to the
\* metrics it was given by get_health_status or get_data_quality_dashboard
\* leaves integration_metrics as it was, and the metrics it was given stay
\* as the caller last saw or wrote them whatever the manager counts later.
C24_MetricsSnapshot ==
    /\ lastOp.op = "caller_writes"
          => integration_metrics = lastOp.pre.metrics
    /\ snapshot.by # None => SnapshotView = snapshot.metrics

\* the records of a games collection that carry the id and in which a score
\* key is present, whatever its value
ScoreKeyRecords(games, id) ==
    {n \in 1..Len(games) :
        /\ games[n].id = id
        /\ (games[n].home_score # Absent \/ games[n].away_score # Absent)}

\* the records of a games collection that carry the id and in which the
\* status key is present
StatusKeyRecords(games, id) ==
    {n \in 1..Len(games) : games[n].id = id /\ games[n].status # Absent}

\* C25: a game record with a non-empty id gives a SCORE_UPDATE event whenever
\* a home or away score key is present in it, also when the value is null,
\* and a GAME_STATE_CHANGE event whenever the status key is present.
C25_PresentFieldsEmit ==
    (/\ lastOp.op = "sportradar_quality_callback"
     /\ lastOp.arg.has_games
     /\ DerivationCompleted)
        => \A id \in GameIds :
              /\ Cardinality(EventIndices("score_update", id))
                   = Cardinality(ScoreKeyRecords(lastOp.arg.games, id))
              /\ Cardinality(EventIndices("game_state_change", id))
                   = Cardinality(StatusKeyRecords(lastOp.arg.games, id))

\* the registrations of an initialize() call
Registrations ==
    {"monitor.register_alert_callback(error)",
     "monitor.register_alert_callback(critical)",
     "monitor.register_reconciliation_rule",
     "event_bus.register_event_listener(game_state_change)",
     "event_bus.register_event_listener(score_update)"}
    \cup {"feed.subscribe_to_updates(" \o active_sports[i] \o ")" :
            i \in 1..Len(active_sports)}

\* C26: initialize() starts the data pipeline, the cache service, the event
\* bus, the feed client and the quality monitor in this order, one after the
\* other, before any other call; and the manager becomes Ready only when the
\* call has registered the two alert callbacks, the reconciliation rule, one
\* subscription per active sport and the two default listeners, each once.
C26_StartOrderThenReady ==
    /\ lastOp.op = "initialize"
          => /\ \A i \in 1..Len(lastOp.calls) :
                   /\ i = 1 => lastOp.calls[i] = "pipeline.initialize"
                   /\ i = 2 => lastOp.calls[i] = "cache.initialize"
                   /\ i = 3 => lastOp.calls[i] = "event_bus.initialize"
                   /\ i = 4 => lastOp.calls[i] = "feed.initialize"
                   /\ i = 5 => lastOp.calls[i] = "monitor.initialize"
                   /\ i > 5 => lastOp.calls[i] \notin
                                 {"pipeline.initialize", "cache.initialize",
                                  "event_bus.initialize", "feed.initialize",
                                  "monitor.initialize"}
             /\ (initialized /\ ~lastOp.pre.initialized)
                   => \A c \in Registrations :
                         Cardinality({i \in 1..Len(lastOp.calls) :
                                         lastOp.calls[i] = c}) = 1
    /\ initialized
          => /\ Len(alert_callbacks) >= 2
             /\ reconciliation_rules >= 1
             /\ \A s \in Range(active_sports) : update_subscriptions[s] >= 1
             /\ Len(event_listeners["game_state_change"]) >= 1
             /\ Len(event_listeners["score_update"]) >= 1

\* the case of C26: a first initialize() with an API key in which nothing
\* failed has made the manager Ready
C26_Witness ==
    /\ lastOp.op = "initialize"
    /\ lastOp.arg = [fail |-> "none", api_key |-> TRUE]
    /\ ~lastOp.pre.initialized
    /\ initialized
    /\ Len(lastOp.calls) = 15
    /\ reconciliation_rules = 1

\* C27: game_state_listener calls the volatility model's game-state update
\* exactly when the event has a game id and a new_state that is a GameState;
\* for another state string, a missing game id or new_state, or a raising
\* update, no game state is updated; and no exception ever leaves the
\* listener.
C27_ListenerForwardsKnownStates ==
    lastOp.op = "game_state_listener"
        => LET event == lastOp.arg.event
               new_state == PayloadGet(event.payload, "new_state")
               known == /\ event.game_id \notin {None, ""}
                        /\ new_state \in GameStates
           IN /\ lastOp.calls = IF known
                                THEN <<"volatility.update_game_state">>
                                ELSE <<>>
              /\ lastOp.result.entries
                   = IF known /\ ~lastOp.arg.update_raises
                     THEN {<<event.game_id, new_state>>} ELSE {}
              /\ lastOp.result.kind = "ok"

\* the case of C27: an event of game g1 with a state string that is no
\* GameState was handed to the listener, which made no call
C27_Witness ==
    /\ lastOp.op = "game_state_listener"
    /\ lastOp.arg.event.game_id = "g1"
    /\ PayloadGet(lastOp.arg.event.payload, "new_state") = "postponed"
    /\ lastOp.calls = <<>>
    /\ lastOp.result.kind = "ok"

\* C28: whatever the interleaving of the steps of read requests and of score
\* events handed to score_update_listener, cache_hits is at most
\* total_requests.
C28_HitsAtMostRequests ==
    integration_metrics.cache_hits <= integration_metrics.total_requests

\* the case of C28: a request was served from the cache and a score event
\* was counted while a request was in flight
C28_Witness ==
    /\ integration_metrics.cache_hits > 0
    /\ lastOp.op = "score_update_listener"
    /\ lastOp.arg.in_flight

====
